---- MODULE Spec2Model ----
(***************************************************************************)
(* A model of mmapcell's MmapCell<T> (src/src/lib.rs): a typed view over a *)
(* memory mapping that is anonymous or backed by a file.                   *)
(*                                                                         *)
(* The state is the filesystem (one file per path), the cells (one slot    *)
(* per MmapCell value the caller may construct) and what the caller saw    *)
(* from the last call.  A file-backed mapping is a shared mapping: its     *)
(* bytes ARE the file's bytes, so a store through the cell is a store into *)
(* the file and every cell mapping that file sees it.                      *)
(***************************************************************************)
EXTENDS Integers, Sequences, FiniteSets, TLC

\* size_of::<T>() in bytes, for the caller's T.
SizeT == 2
\* A file found on disk is at most this much longer than T.
MaxExtra == 1

\* The byte values and the paths of the model.
Bytes == {0, 1}
Paths == {"p"}

\* The MmapCell values the caller constructs: two, so that two views of one
\* file and two anonymous cells both occur.
Cells == {1, 2}
NoPath == "-"
NoImage == <<>>
\* The byte images of T.
Images == [1..SizeT -> Bytes]
Absent == [exists |-> FALSE, bytes |-> <<>>, created |-> FALSE]
\* The files the caller may find at a path before the first call.
InitFiles ==
    {Absent} \cup
    {[exists |-> TRUE, bytes |-> [k \in 1..n |-> 1], created |-> FALSE] :
        n \in 0..(SizeT + MaxExtra)}

VARIABLES files, cells, img, torn, last, crashed

vars == <<files, cells, img, torn, last, crashed>>

\* A slot no constructor has filled yet.
Unconstructed ==
    [st |-> "Unconstructed", ctor |-> "none", path |-> NoPath, len |-> 0,
     mem |-> <<>>, written |-> NoImage, seen |-> NoImage, trace |-> <<>>]

\* MmapCell::new: wraps the mapping as it is; nothing is checked.
New(ctor, path, len, mem, seen) ==
    [st |-> "Live", ctor |-> ctor, path |-> path, len |-> len,
     mem |-> mem, written |-> NoImage, seen |-> seen, trace |-> <<>>]

\* OpenOptions::open with the given create and truncate flags (read and
\* write are always set).
OpenFile(f, create, truncate) ==
    IF ~f.exists /\ ~create
    THEN [ok |-> FALSE, file |-> f]
    ELSE [ok |-> TRUE,
          file |-> [exists |-> TRUE,
                    bytes |-> IF f.exists /\ ~truncate THEN f.bytes ELSE <<>>,
                    created |-> f.created \/ ~f.exists]]

\* The open of new_named: create(true), truncate(false).
OpenCreate(f) == OpenFile(f, TRUE, FALSE)

\* The open of open_named: create(false), truncate(false).
OpenBadCreating(f) == OpenFile(f, TRUE, FALSE)
OpenExistingBadTruncating(f) == OpenFile(f, FALSE, TRUE)
OpenExisting(f) == OpenFile(f, FALSE, FALSE)

\* File::set_len: the first n bytes stay, the file is extended with zeros.
SetLenBadFill(b, n) == [k \in 1..n |-> IF k <= Len(b) THEN b[k] ELSE 1]
SetLen(b, n) == [k \in 1..n |-> IF k <= Len(b) THEN b[k] ELSE 0]

\* MmapOptions::new().len(n).map_anon(): n zero bytes.
MapAnonBadFill(n) == [k \in 1..n |-> 1]
MapAnon(n) == [k \in 1..n |-> 0]

\* MmapMut::map_mut(&file): the mapping covers the file as long as it is now.
MapMut(f) == Len(f.bytes)

Init ==
    /\ files \in [Paths -> InitFiles]
    /\ cells = [i \in Cells |-> Unconstructed]
    /\ img = [p \in Paths |-> NoImage]
    /\ torn = [p \in Paths |-> FALSE]
    /\ last = [op |-> "none", cell |-> 0, path |-> NoPath, fault |-> "none",
               res |-> "none", obs |-> NoImage, prelen |-> -1]
    /\ crashed = FALSE

Called(op, i, p, fault, res, obs, prelen) ==
    [op |-> op, cell |-> i, path |-> p, fault |-> fault, res |-> res,
     obs |-> obs, prelen |-> prelen]

PreLen(f) == IF f.exists THEN Len(f.bytes) ELSE -1

\* MmapCell::new_anon; fault = "map" is map_anon returning an error.
NewAnon(i, fault) ==
    /\ ~crashed
    /\ cells[i].st = "Unconstructed"
    /\ IF fault = "map"
       THEN /\ cells' = cells
            /\ last' = Called("new_anon", i, NoPath, fault, "err", NoImage, -1)
       ELSE /\ cells' = [cells EXCEPT
                    ![i] = New("new_anon", NoPath, SizeT, MapAnon(SizeT), NoImage)]
            /\ last' = Called("new_anon", i, NoPath, fault, "ok", NoImage, -1)
    /\ UNCHANGED <<files, img, torn, crashed>>

\* History: the image the file at p holds as the last one stored, when a
\* cell is constructed on it while no other cell maps it (else NoImage).
Seen(p) ==
    IF \A j \in Cells : ~(cells[j].st = "Live" /\ cells[j].path = p)
    THEN img[p] ELSE NoImage

\* MmapCell::new_named: open (creating), set_len(size_of::<T>()), map_mut,
\* new.  fault names the step the OS fails, if any; the `?` of that step
\* returns the error and the later steps do not run.
NewNamed(i, p, fault) ==
    /\ ~crashed
    /\ cells[i].st = "Unconstructed"
    /\ LET f == files[p]
           o == OpenCreate(f)
           resized == [o.file EXCEPT !.bytes = SetLen(@, SizeT)]
       IN  IF fault = "open" \/ ~o.ok
           THEN /\ files' = files
                /\ cells' = cells
                /\ last' = Called("new_named", i, p, fault, "err", NoImage, PreLen(f))
           ELSE IF fault = "set_len"
           THEN /\ files' = [files EXCEPT ![p] = o.file]
                /\ cells' = cells
                /\ last' = Called("new_named", i, p, fault, "err", NoImage, PreLen(f))
           ELSE IF fault = "map"
           THEN /\ files' = [files EXCEPT ![p] = resized]
                /\ cells' = cells
                /\ last' = Called("new_named", i, p, fault, "err", NoImage, PreLen(f))
           ELSE /\ files' = [files EXCEPT ![p] = resized]
                /\ cells' = [cells EXCEPT
                        ![i] = New("new_named", p, MapMut(resized), <<>>, Seen(p))]
                /\ last' = Called("new_named", i, p, fault, "ok", NoImage, PreLen(f))
    /\ UNCHANGED <<img, torn, crashed>>

\* MmapCell::open_named: open (existing only), map_mut, new.  No set_len.
OpenNamed(i, p, fault) ==
    /\ ~crashed
    /\ cells[i].st = "Unconstructed"
    /\ LET f == files[p]
           o == OpenExisting(f)
       IN  IF fault = "open" \/ ~o.ok
           THEN /\ files' = files
                /\ cells' = cells
                /\ last' = Called("open_named", i, p, fault, "err", NoImage, PreLen(f))
           ELSE IF fault = "map"
           THEN /\ files' = [files EXCEPT ![p] = o.file]
                /\ cells' = cells
                /\ last' = Called("open_named", i, p, fault, "err", NoImage, PreLen(f))
           ELSE /\ files' = [files EXCEPT ![p] = o.file]
                /\ cells' = [cells EXCEPT
                        ![i] = New("open_named", p, MapMut(o.file), <<>>, Seen(p))]
                /\ last' = Called("open_named", i, p, fault, "ok", NoImage, PreLen(f))
    /\ UNCHANGED <<img, torn, crashed>>

\* The bytes cell c's mapping shows: its own anonymous memory, or the file.
Region(c) == IF c.ctor = "new_anon" THEN c.mem ELSE files[c.path].bytes

\* The mapping covers a whole T, so that the casts of get and get_mut stay
\* inside it.
InBounds(c) == c.len >= SizeT

\* The page at the mapping's base holds bytes of the file, so that an access
\* through the cast pointer does not fault even where it leaves the mapping.
\* (A page wholly past the end of the file faults on any access.)
Backed(c) == Len(Region(c)) >= 1

\* get: the first size_of::<T>() bytes at the mapping's base, read as a T.
Deref(r) == SubSeq(r, 1, SizeT)

\* get_mut, and the store of v through the reference it returns: the first
\* size_of::<T>() bytes at the mapping's base become v.
StoreBadPartial(r, v) == [k \in 1..Len(r) |-> IF k < SizeT THEN v[k] ELSE r[k]]
Store(r, v) == [k \in 1..Len(r) |-> IF k <= SizeT THEN v[k] ELSE r[k]]

\* A read of a T through a mapping of n < size_of::<T>() bytes is out of
\* bounds: the n mapped bytes are read, the rest is whatever lies behind them.
Loads(r, n) == {im \in Images : \A k \in 1..SizeT : k <= n => im[k] = r[k]}

\* A store of a T through a mapping of n < size_of::<T>() bytes: the mapped
\* bytes are stored; a byte behind them reaches the file or is lost.
TornStores(r, n, v) ==
    {c \in [1..Len(r) -> Bytes] :
        \A k \in 1..Len(r) :
            IF k <= n /\ k <= SizeT THEN c[k] = v[k]
            ELSE IF k <= SizeT THEN c[k] \in {r[k], v[k]}
            ELSE c[k] = r[k]}

\* A store through an anonymous cell goes to that cell's own mapping
\* (self.raw) and to no other.
AnonStoreBadShared(cs, i, v) ==
    [j \in Cells |->
        IF j = i THEN [cs[j] EXCEPT !.mem = Store(@, v), !.written = v]
        ELSE IF cs[j].st = "Live" /\ cs[j].ctor = "new_anon"
        THEN [cs[j] EXCEPT !.mem = Store(@, v)]
        ELSE cs[j]]
AnonStore(cs, i, v) == [cs EXCEPT ![i].mem = Store(@, v), ![i].written = v]

\* MmapCell::get, and the read of the value through the reference.
Get(i) ==
    /\ ~crashed
    /\ cells[i].st = "Live"
    /\ LET c == cells[i] IN
       IF InBounds(c)
       THEN /\ last' = Called("get", i, c.path, "none", "ok", Deref(Region(c)), -1)
            /\ crashed' = crashed
       ELSE \/ /\ last' = Called("get", i, c.path, "none", "crash", NoImage, -1)
               /\ crashed' = TRUE
            \/ \E im \in Loads(Region(c), c.len) :
                  /\ Backed(c)
                  /\ last' = Called("get", i, c.path, "none", "ub", im, -1)
                  /\ crashed' = crashed
    /\ UNCHANGED <<files, cells, img, torn>>

\* MmapCell::get_mut, and the store of v through the reference.
Write(i, v) ==
    /\ ~crashed
    /\ cells[i].st = "Live"
    /\ LET c == cells[i]
           p == c.path
       IN
       IF c.ctor = "new_anon"
       THEN /\ cells' = AnonStore(cells, i, v)
            /\ last' = Called("write", i, p, "none", "ok", NoImage, -1)
            /\ UNCHANGED <<files, img, torn, crashed>>
       ELSE IF InBounds(c)
       THEN /\ files' = [files EXCEPT ![p].bytes = Store(@, v)]
            /\ cells' = [cells EXCEPT ![i].written = v]
            /\ img' = [img EXCEPT ![p] = v]
            /\ torn' = [torn EXCEPT ![p] = FALSE]
            /\ last' = Called("write", i, p, "none", "ok", NoImage, -1)
            /\ crashed' = crashed
       ELSE \/ /\ last' = Called("write", i, p, "none", "crash", NoImage, -1)
               /\ crashed' = TRUE
               /\ UNCHANGED <<files, cells, img, torn>>
            \/ \E nb \in TornStores(files[p].bytes, c.len, v) :
                  /\ Backed(c)
                  /\ files' = [files EXCEPT ![p].bytes = nb]
                  /\ cells' = [cells EXCEPT ![i].written = v]
                  /\ img' = [img EXCEPT ![p] = v]
                  /\ torn' = [torn EXCEPT ![p] = TRUE]
                  /\ last' = Called("write", i, p, "none", "ub", NoImage, -1)
                  /\ crashed' = crashed

\* MmapMut::flush: the file's modified pages go to disk, or the flush fails;
\* the bytes the file shows are as they were either way.
FlushBadZeroing(f, fr) == [f EXCEPT !.bytes = [k \in 1..Len(@) |-> 0]]
Flush(f, fr) == f

\* `let _ = self.raw.flush();`: the result of the flush is discarded.
DropResult(fr) == "unit"

\* Drop::drop runs the flush; the field raw is dropped (unmapped) after it.
DropOrderBadUnmapFirst == <<"unmap", "flush">>
DropOrder == <<"flush", "unmap">>

\* What is left of a cell once it is dropped.
Released(c) ==
    [st |-> "Released", ctor |-> c.ctor, path |-> c.path, len |-> c.len,
     mem |-> <<>>, written |-> NoImage, seen |-> NoImage, trace |-> DropOrder]

\* Drop for MmapCell; fr is the outcome of the flush.
Drop(i, fr) ==
    /\ ~crashed
    /\ cells[i].st = "Live"
    /\ LET c == cells[i] IN
       /\ files' = IF c.ctor = "new_anon" THEN files
                   ELSE [files EXCEPT ![c.path] = Flush(@, fr)]
       /\ cells' = [cells EXCEPT ![i] = Released(c)]
       /\ last' = Called("drop", i, c.path, IF fr = "ok" THEN "none" ELSE "flush",
                         DropResult(fr), NoImage, -1)
    /\ UNCHANGED <<img, torn, crashed>>

Next ==
    \/ \E i \in Cells, fault \in {"none", "map"} : NewAnon(i, fault)
    \/ \E i \in Cells, p \in Paths, fault \in {"none", "open", "set_len", "map"} :
          NewNamed(i, p, fault)
    \/ \E i \in Cells, p \in Paths, fault \in {"none", "open", "map"} :
          OpenNamed(i, p, fault)
    \/ \E i \in Cells : Get(i)
    \/ \E i \in Cells, v \in Images : Write(i, v)
    \/ \E i \in Cells, fr \in {"ok", "err"} : Drop(i, fr)

Spec == Init /\ [][Next]_vars

(***************************************************************************)
(* The properties.  `last` describes the call that led to the state, so a  *)
(* state predicate on `last` speaks of the state right after that call and *)
(* an action formula on last' speaks of the step that made the call.       *)
(***************************************************************************)
ZeroImage == [k \in 1..SizeT |-> 0]
IsCtor(op) == op \in {"new_anon", "new_named", "open_named"}

\* C1: round trip on an anonymous cell: a get after a store of v through
\* get_mut reads exactly v, whatever was stored before.
RoundTrip ==
    \A i \in Cells :
        (/\ last.op = "get" /\ last.cell = i
         /\ cells[i].ctor = "new_anon"
         /\ cells[i].written # NoImage)
        => (last.res = "ok" /\ last.obs = cells[i].written)

RoundTripWitness ==
    /\ last.op = "get"
    /\ cells[last.cell].ctor = "new_anon"
    /\ cells[last.cell].written = [k \in 1..SizeT |-> IF k = 1 THEN 1 ELSE 0]
    /\ last.obs = cells[last.cell].written

\* C2: zero initialization: a get on an anonymous cell nothing was stored
\* through reads size_of::<T>() zero bytes.
ZeroInit ==
    \A i \in Cells :
        (/\ last.op = "get" /\ last.cell = i
         /\ cells[i].ctor = "new_anon"
         /\ cells[i].written = NoImage)
        => (last.res = "ok" /\ last.obs = ZeroImage /\ Len(last.obs) = SizeT)

ZeroInitWitness ==
    /\ last.op = "get"
    /\ cells[last.cell].ctor = "new_anon"
    /\ cells[last.cell].written = NoImage
    /\ last.obs = ZeroImage

\* C3: named persistence: a cell that open_named opens on a file after the
\* last store to it, and that covers a whole T, reads the image last stored
\* through a cell on that file (which new_named may have created and which
\* was dropped since).
NamedPersistence ==
    \A j \in Cells :
        (/\ last.op = "get" /\ last.cell = j
         /\ cells[j].ctor = "open_named"
         /\ InBounds(cells[j])
         /\ img[cells[j].path] # NoImage
         /\ ~torn[cells[j].path])
        => (last.res = "ok" /\ last.obs = img[cells[j].path])

NamedPersistenceWitness ==
    \E i, j \in Cells :
        /\ i # j
        /\ last.op = "get" /\ last.cell = j /\ last.res = "ok"
        /\ cells[j].ctor = "open_named" /\ cells[j].written = NoImage
        /\ files[cells[j].path].created
        /\ cells[i].st = "Released" /\ cells[i].ctor = "new_named"
        /\ cells[i].path = cells[j].path
        /\ cells[j].seen = [k \in 1..SizeT |-> IF k = 1 THEN 1 ELSE 0]
        /\ last.obs = cells[j].seen

\* C4: create sizing: a new_named that succeeds leaves the file exactly
\* size_of::<T>() bytes long; the bytes the file had below that stay, the
\* bytes added read as zero, the bytes beyond are gone.
CreateSizing ==
    [][(last'.op = "new_named" /\ last'.res = "ok")
        => LET old == files[last'.path]
               new == files'[last'.path]
           IN  /\ new.exists
               /\ Len(new.bytes) = SizeT
               /\ \A k \in 1..SizeT :
                     new.bytes[k] = IF old.exists /\ k <= Len(old.bytes)
                                    THEN old.bytes[k] ELSE 0
               /\ cells'[last'.cell].st = "Live"]_vars

CreateSizingWitness ==
    /\ last.op = "new_named" /\ last.res = "ok"
    /\ last.prelen = SizeT - 1
    /\ Len(files[last.path].bytes) = SizeT
    /\ files[last.path].bytes[SizeT] = 0
    /\ files[last.path].bytes[1] = 1

\* C5: open does not resize: open_named on a file of exactly size_of::<T>()
\* bytes succeeds when the OS fails no step; no open_named and no drop
\* changes a file; and a file of that length keeps its length in every step
\* and its bytes in every step that is not a store.
OpenNoResize ==
    [][/\ \A p \in Paths :
            (/\ last'.op = "open_named" /\ last'.path = p
             /\ last'.fault = "none"
             /\ files[p].exists /\ Len(files[p].bytes) = SizeT)
            => (/\ last'.res = "ok"
                /\ cells'[last'.cell].st = "Live"
                /\ cells'[last'.cell].len = SizeT)
       /\ last'.op \in {"open_named", "drop", "get"} => files' = files
       /\ \A p \in Paths :
            (files[p].exists /\ Len(files[p].bytes) = SizeT)
            => (/\ files'[p].exists
                /\ Len(files'[p].bytes) = SizeT
                /\ last'.op # "write" => files'[p].bytes = files[p].bytes)]_vars

OpenNoResizeWitness ==
    /\ last.op = "drop"
    /\ cells[last.cell].ctor = "open_named"
    /\ cells[last.cell].len = SizeT
    /\ img[last.path] = NoImage
    /\ ~files[last.path].created
    /\ files[last.path].bytes = [k \in 1..SizeT |-> 1]

\* C6: anonymous cells are isolated: a store through one, or its drop,
\* leaves what another live anonymous cell reads as it is.
AnonIsolation ==
    [][\A a, b \in Cells :
          (/\ a # b
           /\ last'.cell = a /\ last'.op \in {"write", "drop"}
           /\ cells[a].ctor = "new_anon"
           /\ cells[b].st = "Live" /\ cells[b].ctor = "new_anon")
          => (/\ cells'[b].st = "Live"
              /\ Deref(Region(cells[b])') = Deref(Region(cells[b])))]_vars

AnonIsolationWitness ==
    \E a, b \in Cells :
        /\ a # b
        /\ last.op = "write" /\ last.cell = a
        /\ cells[a].ctor = "new_anon" /\ cells[b].ctor = "new_anon"
        /\ cells[a].st = "Live" /\ cells[b].st = "Live"
        /\ cells[b].written # NoImage
        /\ cells[a].written # cells[b].written
        /\ Deref(cells[b].mem) = cells[b].written

\* C7: size invariant: the mapping of every live cell is exactly
\* size_of::<T>() bytes long, whichever constructor made it and whatever
\* the file at the path was.
SizeInvariant ==
    \A i \in Cells : cells[i].st = "Live" => cells[i].len = SizeT

\* C8: flush on drop does not corrupt: after the drop of a file-backed
\* cell, no error has reached the caller and the file holds the image last
\* stored through a cell on it.
FlushOnDropKeepsImage ==
    \A i \in Cells :
        (/\ last.op = "drop" /\ last.cell = i
         /\ cells[i].ctor \in {"new_named", "open_named"}
         /\ img[cells[i].path] # NoImage)
        => (/\ last.res = "unit"
            /\ Len(files[cells[i].path].bytes) >= SizeT
            /\ Deref(files[cells[i].path].bytes) = img[cells[i].path])

\* C9: constructors fail fast: open_named on an absent path returns an
\* error, makes no cell and no file; a constructor in which the OS fails a
\* step returns an error and makes no cell, and the steps after the failed
\* one have not run.
ConstructorFailFast ==
    [][IsCtor(last'.op) =>
        /\ (last'.op = "open_named" /\ ~files[last'.path].exists)
            => (last'.res = "err" /\ files' = files)
        /\ last'.fault # "none" => last'.res = "err"
        /\ last'.res = "err" => cells' = cells
        /\ (last'.op = "open_named" /\ last'.res = "err") => files' = files
        /\ last'.fault = "open" => files' = files
        /\ (last'.op = "new_named" /\ last'.fault = "set_len")
            => files'[last'.path].bytes = files[last'.path].bytes
        /\ last'.res = "ok" => cells'[last'.cell].st = "Live"]_vars

ConstructorFailFastWitness ==
    /\ last.op = "open_named"
    /\ last.prelen = -1
    /\ last.fault = "none"
    /\ last.res = "err"
    /\ ~files[last.path].exists

====
